---------------------------- MODULE Spec2Model ----------------------------
(***************************************************************************)
(* State-machine model of the QTrack persistence layer                     *)
(* (src/QTRACK/database.js, class DatabaseManager) together with the       *)
(* IndexedDB behaviour its calls rely on: the open request and its events, *)
(* transactions with their single request, commit and abort.               *)
(*                                                                         *)
(* JavaScript strings are sequences of one-character strings, so that the  *)
(* e-mail regular expression and the shape of a digest are computed.       *)
(* A JavaScript value is a record [t, s, n]: t is its type tag, s the      *)
(* characters of a string, n the value of a number.                        *)
(***************************************************************************)
EXTENDS Integers, Sequences, FiniteSets, TLC

(* ------------------------------ bounds -------------------------------- *)
\* Number of concurrent callers of the exported dbManager instance.
NumCallers == 2
\* Total number of public operations invoked during one page session.
MaxCalls == 2
\* Number of handlers of the application invoked during one page session.
MaxAppCalls == 3
\* Number of times the clock is seen to advance during one page session.
MaxTicks == 2

Procs == 1..NumCallers

(* --------------------------- JavaScript values ------------------------ *)
Undef == [t |-> "undefined", s |-> <<>>, n |-> 0]
Null == [t |-> "null", s |-> <<>>, n |-> 0]
Str(cs) == [t |-> "string", s |-> cs, n |-> 0]
Num(k) == [t |-> "number", s |-> <<>>, n |-> k]

\* typeof value
TypeOf(v) == IF v.t = "null" THEN "object" ELSE v.t

(* ------------------------------ strings ------------------------------- *)
S_alice == <<"a","l","i","c","e">>
S_bob == <<"b","o","b">>
S_rayure == <<"r","a","y","u","r","e">>
S_P3 == <<"P","3">>
S_Mineure == <<"M","i","n","e","u","r","e">>
S_Majeure == <<"M","a","j","e","u","r","e">>
S_Critique == <<"C","r","i","t","i","q","u","e">>
S_Catastrophique == <<"C","a","t","a","s","t","r","o","p","h","i","q","u","e">>
S_surface == <<"s","u","r","f","a","c","e">>
S_fix == <<"f","i","x">>
S_badmail == <<"n","o","t","-","a","n","-","e","m","a","i","l">>
S_mail == <<"a","@","b",".","c","o">>
S_Clos == <<"C","l","o","s">>
S_blank == <<" ", " ">>
S_utilisateur == <<"u","t","i","l","i","s","a","t","e","u","r">>
S_Ouvert == <<"O","u","v","e","r","t">>
S_NonDemarre == <<"N","o","n"," ","d","é","m","a","r","r","é">>
S_CURRENT_TIMESTAMP == <<"C","U","R","R","E","N","T","_","T","I","M","E","S","T","A","M","P">>
S_secret_h0 ==
    <<"s","e","c","r","e","t">>
S_secret_h1 ==
    <<"2","b","b","8","0","d","5","3","7","b","1","d","a","3","e","3","8","b","d","3","0","3","6","1","a","a","8","5","5","6","8","6","b","d","e","0","e","a","c","d","7","1","6","2","f","e","f","6","a","2","5","f","e","9","7","b","f","5","2","7","a","2","5","b">>
S_secret_h2 ==
    <<"3","d","9","1","b","5","8","5","0","4","a","6","c","c","3","a","1","5","9","0","0","5","e","e","7","b","1","6","c","7","a","e","5","0","3","c","a","6","a","c","2","a","6","a","3","c","8","9","3","8","3","7","0","8","3","c","2","3","6","b","8","6","4","a">>
S_secret_h3 ==
    <<"6","9","1","2","a","c","8","a","0","2","0","2","f","3","e","1","a","3","9","b","e","5","3","3","9","1","2","6","3","8","2","e","2","0","9","d","0","3","0","d","1","a","e","3","9","f","9","8","1","5","b","e","3","1","e","d","b","4","2","3","7","3","e","f">>
S_secret_h4 ==
    <<"0","4","d","2","d","5","f","e","e","3","e","2","1","d","1","2","9","5","8","0","1","4","7","d","4","d","7","0","1","3","e","3","e","a","1","1","d","c","0","4","c","7","5","8","5","9","7","6","6","6","9","1","1","3","e","b","1","6","4","f","6","c","0","d">>
S_secret_h5 ==
    <<"b","8","c","8","3","c","5","a","9","7","d","8","b","3","e","d","8","5","1","f","d","3","8","b","c","e","0","a","1","b","a","e","3","9","d","5","4","4","b","0","c","1","e","3","9","8","a","f","b","0","a","8","2","d","7","b","b","5","c","2","1","4","2","8">>
S_pw_h0 ==
    <<"p","w">>
S_pw_h1 ==
    <<"3","0","c","9","5","2","f","a","b","1","2","2","c","3","f","9","7","5","9","f","0","2","a","6","d","9","5","c","3","7","5","8","b","2","4","6","b","4","f","e","e","2","3","9","9","5","7","b","2","d","4","f","e","e","4","6","e","2","6","1","7","0","c","4">>
S_pw_h2 ==
    <<"b","7","f","5","b","5","8","e","0","f","7","a","c","f","9","a","8","d","c","8","e","7","e","b","f","d","5","7","9","d","9","c","3","3","9","d","e","4","4","7","4","8","d","d","c","9","f","0","a","3","2","b","9","5","a","1","d","3","3","7","9","e","3","c">>
S_pw_h3 ==
    <<"0","b","e","0","6","4","0","1","0","7","a","a","2","8","a","e","8","0","b","6","1","8","0","f","4","c","6","2","7","3","a","d","b","b","b","2","f","7","3","0","d","4","6","6","f","0","d","1","1","4","0","f","6","0","9","0","d","9","2","d","6","2","0","b">>
S_pw_h4 ==
    <<"9","7","8","a","2","2","0","4","9","2","3","e","c","8","b","a","c","7","8","1","6","7","a","8","4","5","8","e","2","5","0","2","8","5","9","d","7","b","c","c","4","f","3","1","1","d","6","6","1","7","3","2","b","7","f","3","1","8","3","7","f","6","5","7">>
S_pw_h5 ==
    <<"c","d","7","3","8","7","d","0","b","3","0","b","c","d","5","a","b","2","2","f","b","f","2","6","d","0","c","a","e","8","0","1","1","d","8","1","b","1","8","2","3","7","f","4","a","f","7","4","7","3","a","d","1","1","c","6","1","b","6","b","e","a","8","f">>

(* --------------------------- hashPassword ----------------------------- *)
\* SHA-256 of the modelled strings, as lowercase hexadecimal (the values
\* crypto.subtle.digest('SHA-256', ...) yields for them); the chains cover
\* a digest that is hashed again.
Sha256Pairs ==
    { <<S_secret_h0, S_secret_h1>>, <<S_secret_h1, S_secret_h2>>,
      <<S_secret_h2, S_secret_h3>>, <<S_secret_h3, S_secret_h4>>,
      <<S_secret_h4, S_secret_h5>>,
      <<S_pw_h0, S_pw_h1>>, <<S_pw_h1, S_pw_h2>>, <<S_pw_h2, S_pw_h3>>,
      <<S_pw_h3, S_pw_h4>>, <<S_pw_h4, S_pw_h5>> }

\* hashPassword that returns its argument.
hashPasswordIdentity(password) == password

\* hashPassword(password): the hex digest of the password's characters.
hashPassword(password) ==
    Str((CHOOSE k \in Sha256Pairs : k[1] = password.s)[2])

(* ------------------------------ schema -------------------------------- *)
Tables == {"users", "non_conformites", "actions_correctives"}

\* Every property name a modelled object can carry; an object is a function
\* from these names to values, Undef standing for an absent property.
Cols ==
    {"id", "username", "password", "role", "email", "type_defaut", "poste",
     "gravite", "description", "statut", "date_creation", "id_declarant",
     "responsable", "delai", "id_nc"}

Obj(r) == [c \in Cols |-> IF c \in DOMAIN r THEN r[c] ELSE Undef]

\* A column descriptor as passed to validateData; hasOptions is FALSE when
\* the descriptor carries no `options` property.
Column(name, required, validation) ==
    [name |-> name, required |-> required, validation |-> validation,
     hasOptions |-> FALSE, options |-> <<>>]

\* The descriptor lists the three add operations pass to validateData.
UserSchema ==
    << Column("username", TRUE, "string"),
       Column("password", TRUE, "string"),
       Column("role", FALSE, "string"),
       Column("email", FALSE, "email") >>

NcSchema ==
    << Column("type_defaut", TRUE, "string"),
       Column("poste", TRUE, "string"),
       Column("gravite", TRUE, "enum"),
       Column("description", TRUE, "string"),
       Column("id_declarant", TRUE, "number") >>

ActionSchema ==
    << Column("description", TRUE, "string"),
       Column("responsable", TRUE, "string"),
       Column("delai", TRUE, "number"),
       Column("id_nc", TRUE, "number") >>

\* The columns createTables declares for each table, other than the key,
\* as descriptors validateData can read: none is marked required.
DeclaredColumns(table) ==
    CASE table = "users" ->
            << Column("username", FALSE, "string"),
               Column("password", FALSE, "string"),
               Column("role", FALSE, "string"),
               Column("email", FALSE, "email") >>
      [] table = "non_conformites" ->
            << Column("type_defaut", FALSE, "string"),
               Column("poste", FALSE, "string"),
               [Column("gravite", FALSE, "enum") EXCEPT
                   !.hasOptions = TRUE,
                   !.options = << Str(S_Mineure), Str(S_Majeure), Str(S_Critique) >>],
               Column("description", FALSE, "string"),
               Column("statut", FALSE, "string"),
               Column("date_creation", FALSE, "timestamp"),
               Column("id_declarant", FALSE, "number") >>
      [] OTHER ->
            << Column("description", FALSE, "string"),
               Column("responsable", FALSE, "string"),
               Column("delai", FALSE, "number"),
               Column("statut", FALSE, "string"),
               Column("id_nc", FALSE, "number") >>

\* The `default` createTables declares for the columns of each table.
DeclaredDefaults(table) ==
    CASE table = "users" -> [role |-> Str(S_utilisateur)]
      [] table = "non_conformites" ->
            [statut |-> Str(S_Ouvert), date_creation |-> Str(S_CURRENT_TIMESTAMP)]
      [] OTHER -> [statut |-> Str(S_NonDemarre)]

(* ---------------------------- validateData ---------------------------- *)
\* /^[^\s@]+@[^\s@]+\.[^\s@]+$/.test(value)
Plain(cs, lo, hi) ==
    /\ lo <= hi
    /\ \A k \in lo..hi : cs[k] \notin {"@", " "}

EmailRegexTest(value) ==
    /\ value.t = "string"
    /\ \E i \in 1..Len(value.s) : \E j \in 1..Len(value.s) :
          /\ value.s[i] = "@"
          /\ value.s[j] = "."
          /\ Plain(value.s, 1, i - 1)
          /\ Plain(value.s, i + 1, j - 1)
          /\ Plain(value.s, j + 1, Len(value.s))

Digits == {"0", "1", "2", "3", "4", "5", "6", "7", "8", "9"}

\* isNaN(Date.parse(value)). Of the forms Date.parse accepts, the model has
\* the ISO date YYYY-MM-DD; every other modelled value yields NaN.
DateParseIsNaN(value) ==
    ~ /\ value.t = "string"
      /\ Len(value.s) = 10
      /\ \A k \in {1, 2, 3, 4, 6, 7, 9, 10} : value.s[k] \in Digits
      /\ value.s[5] = "-"
      /\ value.s[8] = "-"

Violation(col, rule) == [col |-> col, rule |-> rule]

\* The `required` test of one column: the messages it pushes.
RequiredErrors(column, value) ==
    IF column.required /\ (value = Undef \/ value = Null \/ value = Str(<<>>))
    THEN << Violation(column.name, "est requis") >>
    ELSE << >>

\* column.options.includes(value) throws a TypeError when the descriptor has
\* no options.
ColumnThrows(column, value) ==
    /\ value # Undef
    /\ value # Null
    /\ column.validation = "enum"
    /\ ~column.hasOptions

\* The type test of one column: the messages the switch pushes.
TypeErrors(column, value) ==
    IF value = Undef \/ value = Null THEN << >>
    ELSE CASE column.validation = "string" ->
                IF TypeOf(value) # "string"
                THEN << Violation(column.name, "doit etre une chaine") >>
                ELSE << >>
           [] column.validation = "number" ->
                IF TypeOf(value) # "number"
                THEN << Violation(column.name, "doit etre un nombre") >>
                ELSE << >>
           [] column.validation = "email" ->
                IF ~EmailRegexTest(value)
                THEN << Violation(column.name, "n'est pas un email valide") >>
                ELSE << >>
           [] column.validation = "enum" ->
                IF \A k \in 1..Len(column.options) : column.options[k] # value
                THEN << Violation(column.name, "doit etre l'une des valeurs") >>
                ELSE << >>
           [] column.validation = "timestamp" ->
                IF DateParseIsNaN(value)
                THEN << Violation(column.name, "doit etre une date valide") >>
                ELSE << >>
           [] OTHER -> << >>

\* schema.forEach over the columns from index i on, errors collected so far
\* in acc; a throw inside the callback ends the loop and loses acc.
RECURSIVE ValidateFrom(_, _, _, _)
ValidateFrom(data, schema, i, acc) ==
    IF i > Len(schema)
    THEN IF Len(acc) > 0
         THEN [kind |-> "ValidationError", errors |-> acc]
         ELSE [kind |-> "ok", errors |-> << >>]
    ELSE LET column == schema[i]
             value == data[column.name]
         IN  IF ColumnThrows(column, value)
             THEN [kind |-> "TypeError", errors |-> << >>]
             ELSE ValidateFrom(data, schema, i + 1,
                      acc \o RequiredErrors(column, value)
                          \o TypeErrors(column, value))

\* validateData that collects the messages and never throws.
validateDataNeverThrows(data, schema) == [kind |-> "ok", errors |-> << >>]

\* validateData(data, schema): "ok", or the error it throws.
validateData(data, schema) == ValidateFrom(data, schema, 1, << >>)

(* ------------------------------ inputs -------------------------------- *)
\* Objects the callers pass to addUser.
UserInputs ==
    { Obj([id |-> Num(1), username |-> Str(S_alice), password |-> Str(S_secret_h0)]),
      Obj([id |-> Num(2), username |-> Str(S_bob), password |-> Str(S_pw_h0)]),
      Obj([username |-> Str(S_alice), password |-> Str(S_secret_h0)]),
      Obj([username |-> Str(<<>>), email |-> Str(S_badmail)]) }

\* Scenario A of the specification.
ScenarioA ==
    Obj([type_defaut |-> Str(S_rayure), poste |-> Str(S_P3),
         gravite |-> Str(S_Mineure), description |-> Str(S_surface),
         id_declarant |-> Num(7)])

\* Objects the callers pass to addNonConformite.
NcInputs ==
    { ScenarioA,
      Obj([poste |-> Str(S_P3)]),
      [ScenarioA EXCEPT !["gravite"] = Str(S_Catastrophique)],
      Obj([poste |-> Str(S_P3), gravite |-> Str(S_Mineure)]) }

\* Objects the callers pass to addActionCorrective.
ActionInputs ==
    { Obj([id |-> Num(1), description |-> Str(S_fix), responsable |-> Str(S_bob),
           delai |-> Num(5), id_nc |-> Num(1)]),
      Obj([description |-> Str(S_fix), responsable |-> Str(S_bob),
           delai |-> Num(5), id_nc |-> Num(1)]),
      Obj([id |-> Num(2), description |-> Str(S_fix), responsable |-> Str(S_bob),
           delai |-> Num(5), id_nc |-> Num(1), statut |-> Num(3)]),
      Obj([description |-> Str(S_fix)]) }

\* User names the callers pass to getUser.
NameInputs == { Str(S_alice), Str(S_bob) }

(* ------------------------------- state -------------------------------- *)
VARIABLES
    phase,                  \* "unloaded" before the module is evaluated, then "loaded"
    hasIndexedDB,           \* window.indexedDB is available
    diskVersion,            \* version of QTrackDB on disk, 0 when it does not exist
    objectStoreNames,       \* object stores of the database on disk
    stores,                 \* committed rows of each object store
    db,                     \* this.db: "null" or "conn"
    conn,                   \* state of the connection this.db refers to
    initializationPromise,  \* this.initializationPromise: "null" or "set"
    opens,                  \* the indexedDB.open requests issued, in order
    initLog,                \* log entries written by initDatabase and createTables
    txs,                    \* the transactions created, in order of creation
    pc,                     \* where each caller's current call is suspended
    op,                     \* the operation of each caller's current or last call
    arg,                    \* the caller's argument object, as it is now
    argIn,                  \* the argument as it was when the call was made
    result,                 \* how the caller's last call settled
    callTx,                 \* transactions created by the caller's current or last call
    logs,                   \* log entries written by the caller's current or last call
    ncalls,                 \* operations invoked so far
    keysReturned            \* per store, the keys add calls resolved with, in order

envVars == <<hasIndexedDB, diskVersion, objectStoreNames, stores>>
mgrVars == <<phase, db, conn, initializationPromise, opens, initLog>>
callVars == <<pc, op, arg, argIn, result, callTx, logs, ncalls, keysReturned>>
dbVars == <<envVars, mgrVars, txs, callVars>>

\* The application object (QualityManagementApp) of the page.
VARIABLES
    appPhase,               \* "unloaded" until DOMContentLoaded constructed the app
    state,                  \* this.state: nonConformites, isLoading, notifications
    microtasks,             \* async methods suspended at their await, in order
    timers,                 \* the setTimeout callbacks pending, in order of creation
    now,                    \* Date.now(), in milliseconds
    completed,              \* the runs of handleSubmitNcForm that reached their end
    appCalls                \* handler invocations so far

appVars == <<appPhase, state, microtasks, timers, now, completed, appCalls>>
vars == <<dbVars, appVars>>

\* this.state as the constructor sets it (the fields the handlers below read
\* or write).
InitialState == [nonConformites |-> << >>, isLoading |-> FALSE, notifications |-> << >>]

\* The page has not constructed the application.
AppUnloaded ==
    /\ appPhase = "unloaded"
    /\ state = InitialState
    /\ microtasks = << >>
    /\ timers = << >>
    /\ now = 0
    /\ completed = << >>
    /\ appCalls = 0

\* this.dbVersion
dbVersion == 1

\* The delay of the timer showNotification sets, in milliseconds.
NotificationDelay == 5000

\* A version on disk newer than the one requested.
NewerVersion == 2

NoResult ==
    [status |-> "none", err |-> "none", errors |-> << >>, key |-> Undef, rows |-> << >>]

\* A rejection with a new Error in place of the one caught.
RejectedWithWrapper(err, errors) ==
    [status |-> "rejected", err |-> "Error", errors |-> errors, key |-> Undef,
     rows |-> << >>]

Rejected(err, errors) ==
    [status |-> "rejected", err |-> err, errors |-> errors, key |-> Undef, rows |-> << >>]

Resolved(key, rows) ==
    [status |-> "resolved", err |-> "none", errors |-> << >>, key |-> key, rows |-> rows]

\* logError that also writes the objects of the calls in flight.
logErrorWithRecord(event, err, errors) ==
    [level |-> "ERROR", event |-> event, err |-> err, errors |-> errors,
     shown |-> {arg[p][c] : p \in Procs, c \in Cols}
               \cup {argIn[p][c] : p \in Procs, c \in Cols}]

\* logError(event, error) and logInfo(event, data): the entry written. An
\* entry carries the event, the error's kind and the messages of a
\* validation error (error.message); it carries no property of the record.
\* `shown` is the set of values of the caller's object that the entry
\* prints: error.message and error.stack name columns only, and the data
\* of the info entries are names and counts.
logError(event, err, errors) ==
    [level |-> "ERROR", event |-> event, err |-> err, errors |-> errors,
     shown |-> {}]

logInfo(event) ==
    [level |-> "INFO", event |-> event, err |-> "none", errors |-> << >>,
     shown |-> {}]

Init ==
    /\ AppUnloaded
    /\ phase = "unloaded"
    /\ hasIndexedDB \in BOOLEAN
    /\ diskVersion \in {0, dbVersion, NewerVersion}
    /\ objectStoreNames = IF diskVersion = 0 THEN {} ELSE Tables
    /\ stores = [t \in Tables |-> {}]
    /\ db = "null"
    /\ conn = "none"
    /\ initializationPromise = "null"
    /\ opens = << >>
    /\ initLog = << >>
    /\ txs = << >>
    /\ pc = [p \in Procs |-> "idle"]
    /\ op = [p \in Procs |-> "none"]
    /\ arg = [p \in Procs |-> Obj(<< >>)]
    /\ argIn = [p \in Procs |-> Obj(<< >>)]
    /\ result = [p \in Procs |-> NoResult]
    /\ callTx = [p \in Procs |-> 0]
    /\ logs = [p \in Procs |-> << >>]
    /\ ncalls = 0
    /\ keysReturned = [t \in Tables |-> << >>]

(* ------------------------ IndexedDB behaviour ------------------------- *)
\* IDBDatabase.transaction(storeNames, mode) on a connection in state c: the
\* exception it throws, or "none".
TransactionError(c, storeNames, mode) ==
    CASE c = "upgrading" -> "InvalidStateError"
      [] c = "closed" -> "InvalidStateError"
      [] ~(storeNames \subseteq objectStoreNames) -> "NotFoundError"
      [] mode \notin {"readonly", "readwrite"} -> "TypeError"
      [] OTHER -> "none"

\* A value usable as a key (of the modelled values: numbers and strings).
ValidKey(v) == v.t \in {"number", "string"}

\* Two transactions whose scopes overlap, one of them writing, run one
\* after the other in the order of their creation.
Finished(t) == t.state \in {"committed", "aborted"}

CanRun(i) ==
    \A j \in 1..(i - 1) :
        (txs[j].store = txs[i].store
            /\ (txs[j].mode = "readwrite" \/ txs[i].mode = "readwrite"))
        => Finished(txs[j])

\* store.add(row) against the committed rows: the key exists already, or a
\* unique index (users.username) holds the value already.
ConstraintViolated(store, row) ==
    \/ \E r \in stores[store] : r["id"] = row["id"]
    \/ /\ store = "users"
       /\ ValidKey(row["username"])
       /\ \E r \in stores[store] : r["username"] = row["username"]

\* The rows of a set in ascending order of their numeric key.
RECURSIVE SortedByKey(_)
SortedByKey(rows) ==
    IF rows = {} THEN << >>
    ELSE LET first == CHOOSE r \in rows : \A q \in rows : r["id"].n <= q["id"].n
         IN  << first >> \o SortedByKey(rows \ {first})

(* ---------------------------- createTables ---------------------------- *)
\* createTables() with this.db = d on a connection in state c: the error it
\* throws, or "none". Its first statement in the try block asks the
\* connection for a "versionchange" transaction over the three stores.
createTablesError(d, c) ==
    IF d = "null" THEN "NotInitialized"
    ELSE TransactionError(c, Tables, "versionchange")

(* ----------------------------- initDatabase --------------------------- *)
PendingOpens == {i \in 1..Len(opens) : opens[i].state \in {"pending", "aborting"}}

\* initDatabase without its test of window.indexedDB.
initDatabaseNeverThrows == FALSE

\* window.indexedDB is missing: initDatabase throws before opening anything.
initDatabaseThrows == ~hasIndexedDB

\* initDatabase() up to its first await, called by `waiter` (0: the
\* constructor). The request remembers what the manager held when
\* indexedDB.open was called, the version then on disk (event.oldVersion)
\* and the handlers from which createTables() was called for it.
initDatabase(waiter) ==
    IF initDatabaseThrows
    THEN /\ initLog' = Append(initLog,
                logError("DB_INITIALIZATION_FAILED", "NoIndexedDB", << >>))
         /\ UNCHANGED <<opens, initializationPromise>>
    ELSE /\ opens' = Append(opens,
                [state |-> "pending", init |-> "pending", waiter |-> waiter,
                 oldVersion |-> diskVersion, createTablesIn |-> {},
                 dbAtOpen |-> db,
                 pendingAtOpen |-> Cardinality(PendingOpens)])
         /\ initializationPromise' = "set"
         /\ UNCHANGED initLog

\* new DatabaseManager(), run once when the module is evaluated.
constructor ==
    /\ phase = "unloaded"
    /\ phase' = "loaded"
    /\ initDatabase(0)
    /\ UNCHANGED <<appVars, db, conn, envVars, txs, callVars>>

(* -------------------------- getDatabaseStatus ------------------------- *)
\* getDatabaseStatus(): storeNames are those of the connection, which are
\* the stores on disk.
getDatabaseStatus ==
    [initialized |-> db # "null",
     dbName |-> "QTrackDB",
     version |-> dbVersion,
     storeNames |-> IF db # "null" THEN objectStoreNames ELSE {}]

(* ------------------------- executeTransaction ------------------------- *)
OpStore(o) ==
    CASE o \in {"addUser", "getUser"} -> "users"
      [] o \in {"addNonConformite", "getNonConformites"} -> "non_conformites"
      [] OTHER -> "actions_correctives"

\* Every operation asking for a readwrite transaction.
OpModeAlwaysReadwrite(o) == "readwrite"

OpMode(o) ==
    IF o \in {"getUser", "getNonConformites"} THEN "readonly" ELSE "readwrite"

\* The request the operation callback issues on its store.
OpKind(o) ==
    CASE o = "getUser" -> "get"
      [] o = "getNonConformites" -> "getAll"
      [] OTHER -> "add"

\* The event the operation's own catch block logs; the two reads have none.
OpEvent(o) ==
    CASE o = "addUser" -> "USER_ADD_FAILED"
      [] o = "addNonConformite" -> "NC_ADD_FAILED"
      [] o = "addActionCorrective" -> "ACTION_ADD_FAILED"
      [] OTHER -> "none"

\* What the catch blocks log for an error; inTx: it was thrown inside the
\* try block of executeTransaction.
FailLogs(o, err, errors, inTx) ==
    (IF inTx THEN << logError("TRANSACTION_FAILED", err, errors) >> ELSE << >>)
    \o (IF OpEvent(o) # "none" THEN << logError(OpEvent(o), err, errors) >> ELSE << >>)

\* The call of caller p settles as rejected.
Reject(p, o, err, errors, inTx, lg, ntx) ==
    /\ pc' = [pc EXCEPT ![p] = "idle"]
    /\ result' = [result EXCEPT ![p] = Rejected(err, errors)]
    /\ logs' = [logs EXCEPT ![p] = lg \o FailLogs(o, err, errors, inTx)]
    /\ callTx' = [callTx EXCEPT ![p] = ntx]

\* store.add(row) throws a DataError: the store has keyPath "id" and no key
\* generator, and the row yields no valid key.
AddThrows(row) == ~ValidKey(row["id"])

\* The try block of executeTransaction for operation o of caller p, on a
\* connection in state c: the transaction, then the operation callback up
\* to the promise it returns. A transaction remembers the object its call
\* was given, how that call settled and the error the store raised for it.
runTransaction(p, o, row, given, lg, c) ==
    LET e == TransactionError(c, {OpStore(o)}, OpMode(o))
        tx == [owner |-> p, store |-> OpStore(o), mode |-> OpMode(o),
               kind |-> OpKind(o), row |-> row, state |-> "active",
               given |-> given, outcome |-> "pending", error |-> "none"]
    IN  IF e # "none"
        THEN /\ Reject(p, o, e, << >>, TRUE, lg, 0)
             /\ UNCHANGED txs
        ELSE IF OpKind(o) = "add" /\ AddThrows(row)
        THEN \* the transaction holds no request and completes empty
             /\ Reject(p, o, "DataError", << >>, TRUE, lg, 1)
             /\ txs' = Append(txs, [tx EXCEPT !.kind = "none", !.state = "committed",
                                          !.outcome = "rejected",
                                          !.error = "DataError"])
        ELSE /\ pc' = [pc EXCEPT ![p] = "pending"]
             /\ result' = [result EXCEPT ![p] = NoResult]
             /\ logs' = [logs EXCEPT ![p] = lg]
             /\ callTx' = [callTx EXCEPT ![p] = 1]
             /\ txs' = Append(txs, tx)

\* if (!this.db) throw ...
HandleMissing == db = "null"

\* The test of initializationPromise with its negation lost.
NeedsInitNegationLost == initializationPromise # "null"

\* if (!this.initializationPromise) await this.initDatabase()
NeedsInit == initializationPromise = "null"

\* executeTransaction(storeNames, mode, operation) for operation o of
\* caller p, up to its first suspension.
executeTransaction(p, o, row, given, lg) ==
    IF HandleMissing
    THEN /\ Reject(p, o, "NotInitialized", << >>, FALSE, lg, 0)
         /\ UNCHANGED <<txs, opens, initializationPromise, initLog>>
    ELSE IF NeedsInit
    THEN /\ initDatabase(p)
         /\ IF initDatabaseThrows
            THEN Reject(p, o, "NoIndexedDB", << >>, FALSE, lg, 0)
            ELSE /\ pc' = [pc EXCEPT ![p] = "awaitInit"]
                 /\ result' = [result EXCEPT ![p] = NoResult]
                 /\ logs' = [logs EXCEPT ![p] = lg]
                 /\ callTx' = [callTx EXCEPT ![p] = 0]
         /\ UNCHANGED txs
    ELSE /\ runTransaction(p, o, row, given, lg, conn)
         /\ UNCHANGED <<opens, initializationPromise, initLog>>

(* ----------------------- the open request's events -------------------- *)
\* The caller awaiting an initDatabase() that rejects: the rejection leaves
\* executeTransaction outside its try block.
ResumeRejected(w, err) ==
    IF w = 0
    THEN UNCHANGED <<pc, result, logs, callTx>>
    ELSE Reject(w, op[w], err, << >>, FALSE, logs[w], 0)

\* request.onupgradeneeded: the database on disk is older than dbVersion.
\* The handler stores the connection and calls createTables(); an exception
\* leaving the handler aborts the upgrade, which closes the connection and
\* leaves the disk as it was.
OpenUpgradeNeeded(i) ==
    /\ opens[i].state = "pending"
    /\ diskVersion < dbVersion
    /\ db' = "conn"
    /\ LET e == createTablesError("conn", "upgrading")
       IN  IF e # "none"
           THEN /\ conn' = "closed"
                /\ opens' = [opens EXCEPT ![i].state = "aborting",
                                    ![i].createTablesIn = @ \cup {"upgradeneeded"}]
                /\ initLog' = initLog \o
                       << logInfo("DB_UPGRADE_NEEDED"),
                          logError("TABLES_CREATION_FAILED", e, << >>) >>
                /\ UNCHANGED <<diskVersion, objectStoreNames>>
           ELSE /\ conn' = "upgrading"
                /\ diskVersion' = dbVersion
                /\ objectStoreNames' = objectStoreNames \cup Tables
                /\ initLog' = initLog \o
                       << logInfo("DB_UPGRADE_NEEDED"), logInfo("TABLE_CREATED") >>
                /\ opens' = [opens EXCEPT
                                    ![i].createTablesIn = @ \cup {"upgradeneeded"}]
    /\ UNCHANGED <<appVars, phase, hasIndexedDB, stores, initializationPromise, txs, callVars>>

\* request.onerror: the upgrade was aborted, or the database on disk is
\* newer than dbVersion. The handler rejects dbPromise, and initDatabase
\* logs and rethrows.
OpenError(i) ==
    /\ \/ opens[i].state = "aborting"
       \/ opens[i].state = "pending" /\ diskVersion > dbVersion
    /\ opens' = [opens EXCEPT ![i].state = "error", ![i].init = "rejected"]
    /\ initLog' = initLog \o
           << logError("DB_INIT_ERROR", "DbOpenError", << >>),
              logError("DB_INITIALIZATION_FAILED", "DbOpenError", << >>) >>
    /\ ResumeRejected(opens[i].waiter, "DbOpenError")
    /\ UNCHANGED <<appVars, phase, db, conn, initializationPromise, envVars, txs,
                   op, arg, argIn, ncalls, keysReturned>>

\* request.onsuccess: the database on disk has version dbVersion. The
\* handler stores the connection and resolves dbPromise; initDatabase then
\* calls createTables() once more.
OpenSuccess(i) ==
    /\ opens[i].state = "pending"
    /\ diskVersion = dbVersion
    /\ db' = "conn"
    /\ conn' = "open"
    /\ LET e == createTablesError("conn", "open")
           w == opens[i].waiter
       IN  /\ opens' = [opens EXCEPT ![i].state = "success",
                           ![i].createTablesIn = @ \cup {"success"},
                           ![i].init = IF e = "none" THEN "resolved" ELSE "rejected"]
           /\ initLog' = initLog \o << logInfo("DB_INIT_SUCCESS") >> \o
                  (IF e = "none" THEN << >>
                   ELSE << logError("TABLES_CREATION_FAILED", e, << >>),
                           logError("DB_INITIALIZATION_FAILED", e, << >>) >>)
           /\ IF w = 0
              THEN UNCHANGED <<pc, result, logs, callTx, txs>>
              ELSE IF e # "none"
              THEN /\ Reject(w, op[w], e, << >>, FALSE, logs[w], 0)
                   /\ UNCHANGED txs
              ELSE runTransaction(w, op[w], arg[w], argIn[w], logs[w], "open")
    /\ UNCHANGED <<appVars, phase, initializationPromise, envVars,
                   op, arg, argIn, ncalls, keysReturned>>

(* --------------------------- public operations ------------------------ *)
\* Caller p may invoke an operation. The callers are interchangeable, so
\* they are numbered in the order of their first call.
CanCall(p) ==
    /\ phase = "loaded"
    /\ pc[p] = "idle"
    /\ ncalls < MaxCalls
    /\ \A q \in Procs : q < p => op[q] # "none"

\* The call of operation o by caller p with object a begins.
Begin(p, o, a) ==
    /\ CanCall(p)
    /\ op' = [op EXCEPT ![p] = o]
    /\ arg' = [arg EXCEPT ![p] = a]
    /\ argIn' = [argIn EXCEPT ![p] = a]
    /\ ncalls' = ncalls + 1
    /\ UNCHANGED <<appVars, phase, db, conn, envVars, keysReturned>>

\* if (user.password)
Truthy(v) ==
    /\ v.t \notin {"undefined", "null"}
    /\ v # Str(<< >>)
    /\ v # Num(0)

\* Validation threw: the operation's catch block logs and rethrows, and
\* executeTransaction is never entered.
ValidationRejects(p, o, v) ==
    /\ Reject(p, o, v.kind, v.errors, FALSE, << >>, 0)
    /\ UNCHANGED <<txs, opens, initializationPromise, initLog>>

\* addUser(user) up to `await this.hashPassword(user.password)`.
addUser(p, user) ==
    /\ Begin(p, "addUser", user)
    /\ LET v == validateData(user, UserSchema)
       IN  IF v.kind # "ok"
           THEN ValidationRejects(p, "addUser", v)
           ELSE IF Truthy(user["password"])
           THEN /\ pc' = [pc EXCEPT ![p] = "hashing"]
                /\ result' = [result EXCEPT ![p] = NoResult]
                /\ logs' = [logs EXCEPT ![p] = << >>]
                /\ callTx' = [callTx EXCEPT ![p] = 0]
                /\ UNCHANGED <<txs, opens, initializationPromise, initLog>>
           ELSE executeTransaction(p, "addUser", user, user, << >>)

\* addUser after the digest arrives: the caller's object gets the digest as
\* its password, and executeTransaction adds the object to "users".
addUserHashed(p) ==
    /\ pc[p] = "hashing"
    /\ LET user == [arg[p] EXCEPT !["password"] = hashPassword(arg[p]["password"])]
       IN  /\ arg' = [arg EXCEPT ![p] = user]
           /\ executeTransaction(p, "addUser", user, argIn[p], << >>)
    /\ UNCHANGED <<appVars, phase, db, conn, envVars, op, argIn, ncalls, keysReturned>>

\* addNonConformite(nc)
addNonConformite(p, nc) ==
    /\ Begin(p, "addNonConformite", nc)
    /\ LET v == validateData(nc, NcSchema)
       IN  IF v.kind # "ok"
           THEN ValidationRejects(p, "addNonConformite", v)
           ELSE executeTransaction(p, "addNonConformite", nc, nc, << >>)

\* addActionCorrective(action)
addActionCorrective(p, action) ==
    /\ Begin(p, "addActionCorrective", action)
    /\ LET v == validateData(action, ActionSchema)
       IN  IF v.kind # "ok"
           THEN ValidationRejects(p, "addActionCorrective", v)
           ELSE executeTransaction(p, "addActionCorrective", action, action, << >>)

\* getUser(username)
getUser(p, username) ==
    /\ Begin(p, "getUser", Obj([username |-> username]))
    /\ executeTransaction(p, "getUser", Obj([username |-> username]),
                          Obj([username |-> username]), << >>)

\* getNonConformites()
getNonConformites(p) ==
    /\ Begin(p, "getNonConformites", Obj(<< >>))
    /\ executeTransaction(p, "getNonConformites", Obj(<< >>), Obj(<< >>), << >>)

(* ------------------ the transactions' requests and ends --------------- *)
\* Rows seen as soon as a transaction holds them, committed or not.
VisibleRowsUncommitted(store) ==
    stores[store] \cup
    {txs[i].row : i \in {k \in 1..Len(txs) :
        txs[k].kind = "add" /\ txs[k].store = store /\ ~Finished(txs[k])}}

\* The rows a request of a running transaction finds in a store: those of
\* the transactions that committed.
VisibleRows(store) == stores[store]

\* index.get(username): the row with the lowest key among the matching ones.
IndexGet(store, username) ==
    LET hits == {r \in VisibleRows(store) : r["username"] = username}
    IN  IF hits = {} THEN << >> ELSE << SortedByKey(hits)[1] >>

\* A lookup that rejects when the index finds no row.
RequestResultRejectsAbsent(t) ==
    CASE t.kind = "add" -> Resolved(t.row["id"], << >>)
      [] t.kind = "get" ->
            IF IndexGet(t.store, t.row["username"]) = << >>
            THEN Rejected("NotFoundError", << >>)
            ELSE Resolved(Undef, IndexGet(t.store, t.row["username"]))
      [] OTHER -> Resolved(Undef, SortedByKey(VisibleRows(t.store)))

\* What the request of transaction t yields: the key of an added row, the
\* row found by the index (none: undefined), or all rows of the store.
RequestResult(t) ==
    CASE t.kind = "add" -> Resolved(t.row["id"], << >>)
      [] t.kind = "get" -> Resolved(Undef, IndexGet(t.store, t.row["username"]))
      [] OTHER -> Resolved(Undef, SortedByKey(VisibleRows(t.store)))

\* request.onsuccess: the operation's promise resolves with request.result,
\* and with it executeTransaction and the public operation. The transaction
\* has yet to commit.
RequestSuccess(i) ==
    LET t == txs[i]
        p == t.owner
    IN  /\ t.state = "active"
        /\ CanRun(i)
        /\ t.kind = "add" => ~ConstraintViolated(t.store, t.row)
        /\ txs' = [txs EXCEPT ![i].state = "done", ![i].outcome = "resolved"]
        /\ pc' = [pc EXCEPT ![p] = "idle"]
        /\ result' = [result EXCEPT ![p] = RequestResult(t)]
        /\ keysReturned' =
               IF t.kind = "add"
               THEN [keysReturned EXCEPT ![t.store] = Append(@, t.row["id"])]
               ELSE keysReturned
        /\ UNCHANGED <<appVars, envVars, mgrVars, op, arg, argIn, callTx, logs, ncalls>>

\* request.onerror: the add violates a constraint. The operation's promise
\* rejects with request.error, both catch blocks log, and the unhandled
\* error event aborts the transaction.
RequestError(i) ==
    LET t == txs[i]
        p == t.owner
    IN  /\ t.state = "active"
        /\ CanRun(i)
        /\ t.kind = "add"
        /\ ConstraintViolated(t.store, t.row)
        /\ txs' = [txs EXCEPT ![i].state = "aborted", ![i].outcome = "rejected",
                              ![i].error = "ConstraintError"]
        /\ Reject(p, op[p], "ConstraintError", << >>, TRUE, logs[p], callTx[p])
        /\ UNCHANGED <<appVars, envVars, mgrVars, op, arg, argIn, ncalls, keysReturned>>

\* The transaction commits: an added row becomes part of the store.
Commit(i) ==
    LET t == txs[i]
    IN  /\ t.state = "done"
        /\ txs' = [txs EXCEPT ![i].state = "committed"]
        /\ stores' = IF t.kind = "add"
                     THEN [stores EXCEPT ![t.store] = @ \cup {t.row}]
                     ELSE stores
        /\ UNCHANGED <<appVars, hasIndexedDB, diskVersion, objectStoreNames, mgrVars, callVars>>

\* The store aborts a writing transaction (quota, I/O failure): its row is
\* dropped. A request still pending gets an error event, which rejects the
\* call; a request that has already succeeded has resolved the call.
Abort(i) ==
    LET t == txs[i]
        p == t.owner
    IN  /\ t.mode = "readwrite"
        /\ t.state \in {"active", "done"}
        /\ txs' = [txs EXCEPT ![i].state = "aborted",
                              ![i].outcome = IF t.state = "active" THEN "rejected" ELSE @,
                              ![i].error = "AbortError"]
        /\ IF t.state = "active"
           THEN Reject(p, op[p], "AbortError", << >>, TRUE, logs[p], callTx[p])
           ELSE UNCHANGED <<pc, result, logs, callTx>>
        /\ UNCHANGED <<appVars, envVars, mgrVars, op, arg, argIn, ncalls, keysReturned>>

(* --------------------------- specification ---------------------------- *)
\* The object a caller may pass to addUser again: the one of its last
\* addUser call, as that call left it.
Resubmittable(p) == IF op[p] = "addUser" THEN {arg[p]} ELSE {}

Next ==
    \/ constructor
    \/ \E i \in 1..Len(opens) : OpenUpgradeNeeded(i)
    \/ \E i \in 1..Len(opens) : OpenError(i)
    \/ \E i \in 1..Len(opens) : OpenSuccess(i)
    \/ \E p \in Procs : \E user \in UserInputs \cup Resubmittable(p) : addUser(p, user)
    \/ \E p \in Procs : addUserHashed(p)
    \/ \E p \in Procs : \E nc \in NcInputs : addNonConformite(p, nc)
    \/ \E p \in Procs : \E action \in ActionInputs : addActionCorrective(p, action)
    \/ \E p \in Procs : \E username \in NameInputs : getUser(p, username)
    \/ \E p \in Procs : getNonConformites(p)
    \/ \E i \in 1..Len(txs) : RequestSuccess(i)
    \/ \E i \in 1..Len(txs) : RequestError(i)
    \/ \E i \in 1..Len(txs) : Commit(i)
    \/ \E i \in 1..Len(txs) : Abort(i)

Spec == Init /\ [][Next]_vars


(* ====================== the application (part_000) ==================== *)
\* A File, the value FormData gives for a file input.
File == [t |-> "object", s |-> << >>, n |-> 0]

\* String.prototype.trim on the characters of a string.
IsSpace(ch) == ch \in {" ", "\t", "\n"}

RECURSIVE TrimStart(_)
TrimStart(cs) ==
    IF cs # << >> /\ IsSpace(Head(cs)) THEN TrimStart(Tail(cs)) ELSE cs

RECURSIVE TrimEnd(_)
TrimEnd(cs) ==
    IF cs # << >> /\ IsSpace(cs[Len(cs)])
    THEN TrimEnd(SubSeq(cs, 1, Len(cs) - 1))
    ELSE cs

trim(cs) == TrimEnd(TrimStart(cs))

\* Validator.validateNcForm(formData). `!v || v.trim() === ''` throws a
\* TypeError for a truthy value without a trim method.
NcFormFields == {"type_defaut", "gravite", "description"}

validateNcForm(formData) ==
    IF \E f \in NcFormFields : Truthy(formData[f]) /\ formData[f].t # "string"
    THEN [kind |-> "TypeError", isValid |-> FALSE, errors |-> {}]
    ELSE LET errors == {f \in NcFormFields :
                           ~Truthy(formData[f]) \/ trim(formData[f].s) = << >>}
         IN  [kind |-> "ok", isValid |-> errors = {}, errors |-> errors]

\* The two kinds of argument the handlers pass to setState: an object
\* literal with its properties, and an updater function, with the object it
\* would return for the current state.
ObjectArg(props) == [kind |-> "object", props |-> props]
FunctionArg(returns) == [kind |-> "function", props |-> returns]

\* setState(newState): this.state = { ...this.state, ...newState }. The
\* spread copies the own enumerable properties of newState; a function has
\* none, and it is never called.
setState(s, newState) ==
    IF newState.kind = "function"
    THEN s
    ELSE [f \in DOMAIN s |->
            IF f \in DOMAIN newState.props THEN newState.props[f] ELSE s[f]]

\* new Date().toISOString() at time t.
toISOString(t) == Str(<< ToString(t) >>)

\* showNotification(type, message): the notification object, the state
\* after the setState call and the timer the call leaves behind.
Notification(type, message) ==
    [id |-> now, type |-> type, message |-> message, timestamp |-> toISOString(now)]

showNotification(s, type, message) ==
    setState(s, FunctionArg(
        [notifications |-> << Notification(type, message) >> \o s.notifications]))

NotificationTimer(type, message) ==
    [notification |-> Notification(type, message), due |-> now + NotificationDelay]

\* removeNotification(id)
removeNotification(s, id) ==
    setState(s, FunctionArg(
        [notifications |-> SelectSeq(s.notifications, LAMBDA n : n.id # id)]))

\* The object submitNcDeclaration builds from the form data, and the state
\* after its setState call.
NewNc(s, ncData) ==
    [ncData EXCEPT !["id"] = Num(Len(s.nonConformites) + 1),
                   !["date_creation"] = toISOString(now),
                   !["statut"] = Str(S_Ouvert)]

submitNcDeclaration(s, ncData) ==
    setState(s, FunctionArg(
        [nonConformites |-> s.nonConformites \o << NewNc(s, ncData) >>]))

\* The finally blocks of loadInitialData and of handleSubmitNcForm.
loadInitialDataFinally(s) == setState(s, ObjectArg([isLoading |-> FALSE]))

handleSubmitNcFormFinallyMissing(s) == s

handleSubmitNcFormFinally(s) == setState(s, ObjectArg([isLoading |-> FALSE]))

\* The 0-based ncs.findIndex(nc => nc.id === ncId), -1 when there is none.
findIndex(ncs, ncId) ==
    IF \E k \in 1..Len(ncs) : ncs[k]["id"] = Num(ncId)
    THEN (CHOOSE k \in 1..Len(ncs) :
              /\ ncs[k]["id"] = Num(ncId)
              /\ \A j \in 1..(k - 1) : ncs[j]["id"] # Num(ncId)) - 1
    ELSE -1

\* { ...nc, ...updates }
Merge(nc, updates) == [c \in Cols |-> IF updates[c] # Undef THEN updates[c] ELSE nc[c]]

\* The forms submitted: two that pass validateNcForm, two it rejects (a
\* blank description, no gravite) and one with a file in a text field.
FormInputs ==
    { Obj([type_defaut |-> Str(S_rayure), poste |-> Str(S_P3),
           gravite |-> Str(S_Mineure), description |-> Str(S_surface)]),
      Obj([type_defaut |-> Str(S_rayure), gravite |-> Str(S_Catastrophique),
           description |-> Str(S_surface)]),
      Obj([type_defaut |-> Str(S_rayure), gravite |-> Str(S_Mineure),
           description |-> Str(S_blank)]),
      Obj([type_defaut |-> Str(S_rayure), description |-> Str(S_surface)]),
      Obj([type_defaut |-> Str(S_rayure), gravite |-> Str(S_Mineure),
           description |-> File]) }

\* The updates passed to updateNc, and the ids passed to it and to closeNc.
UpdateInputs ==
    { Obj([statut |-> Str(S_Clos)]),
      Obj([gravite |-> Str(S_Catastrophique)]),
      Obj([statut |-> Num(3)]) }

NcIdInputs == {1, 2}

\* A handler runs as a task of its own: no async method is suspended.
AppCanCall ==
    /\ appPhase = "running"
    /\ microtasks = << >>
    /\ appCalls < MaxAppCalls

Suspended(method, form, before) ==
    [method |-> method, form |-> form, before |-> before]

Run(form, outcome, before, after) ==
    [form |-> form, outcome |-> outcome, before |-> before, after |-> after]

\* DOMContentLoaded: new QualityManagementApp(), whose init() calls
\* loadInitialData(), which runs up to its await.
DOMContentLoaded ==
    /\ appPhase = "unloaded"
    /\ appPhase' = "running"
    /\ state' = setState(InitialState, ObjectArg([isLoading |-> TRUE]))
    /\ microtasks' = << Suspended("loadInitialData", Obj(<< >>), << >>) >>
    /\ UNCHANGED <<timers, now, completed, appCalls, dbVars>>

\* handleSubmitNcForm(form) up to its await, or to its end when the form is
\* rejected or validateNcForm throws.
handleSubmitNcForm(form) ==
    /\ AppCanCall
    /\ appCalls' = appCalls + 1
    /\ LET validation == validateNcForm(form)
       IN  IF validation.kind # "ok"
           THEN /\ state' = handleSubmitNcFormFinally(
                               showNotification(state, "error", "Soumission echouee"))
                /\ timers' = Append(timers, NotificationTimer("error", "Soumission echouee"))
                /\ completed' = Append(completed,
                       Run(form, "error", state.nonConformites, state'.nonConformites))
                /\ UNCHANGED microtasks
           ELSE IF ~validation.isValid
           THEN /\ state' = handleSubmitNcFormFinally(
                               showNotification(state, "error", "validation.errors"))
                /\ timers' = Append(timers, NotificationTimer("error", "validation.errors"))
                /\ completed' = Append(completed,
                       Run(form, "rejected", state.nonConformites, state'.nonConformites))
                /\ UNCHANGED microtasks
           ELSE /\ state' = submitNcDeclaration(
                               setState(state, ObjectArg([isLoading |-> TRUE])), form)
                /\ microtasks' = Append(microtasks,
                       Suspended("handleSubmitNcForm", form, state.nonConformites))
                /\ UNCHANGED <<timers, completed>>
    /\ UNCHANGED <<appPhase, now, dbVars>>

\* The rest of the suspended async method, after its await.
RunMicrotask ==
    /\ microtasks # << >>
    /\ microtasks' = Tail(microtasks)
    /\ LET m == Head(microtasks)
       IN  IF m.method = "loadInitialData"
           THEN /\ state' = loadInitialDataFinally(state)
                /\ UNCHANGED <<timers, completed>>
           ELSE /\ state' = handleSubmitNcFormFinally(
                               showNotification(state, "success", "NC declaree"))
                /\ timers' = Append(timers, NotificationTimer("success", "NC declaree"))
                /\ completed' = Append(completed,
                       Run(m.form, "success", m.before, state'.nonConformites))
    /\ UNCHANGED <<appPhase, now, appCalls, dbVars>>

\* updateNc(ncId, updates)
updateNc(ncId, updates) ==
    /\ AppCanCall
    /\ appCalls' = appCalls + 1
    /\ LET ncIndex == findIndex(state.nonConformites, ncId)
       IN  IF ncIndex # -1
           THEN /\ state' = showNotification(
                       setState(state, FunctionArg(
                           [nonConformites |->
                               [state.nonConformites EXCEPT
                                   ![ncIndex + 1] = Merge(@, updates)]])),
                       "success", "NC mise a jour")
                /\ timers' = Append(timers, NotificationTimer("success", "NC mise a jour"))
           ELSE UNCHANGED <<state, timers>>
    /\ UNCHANGED <<appPhase, microtasks, now, completed, dbVars>>

\* closeNc(ncId)
closeNc(ncId) ==
    /\ AppCanCall
    /\ appCalls' = appCalls + 1
    /\ LET ncIndex == findIndex(state.nonConformites, ncId)
       IN  IF ncIndex # -1
           THEN /\ state' = showNotification(
                       setState(state, FunctionArg(
                           [nonConformites |->
                               [state.nonConformites EXCEPT
                                   ![ncIndex + 1]["statut"] = Str(S_Clos)]])),
                       "success", "NC cloturee")
                /\ timers' = Append(timers, NotificationTimer("success", "NC cloturee"))
           ELSE UNCHANGED <<state, timers>>
    /\ UNCHANGED <<appPhase, microtasks, now, completed, dbVars>>

\* The oldest timer is due: removeNotification(notification.id).
TimerFires ==
    /\ appPhase = "running"
    /\ microtasks = << >>
    /\ timers # << >>
    /\ Head(timers).due <= now
    /\ state' = removeNotification(state, Head(timers).notification.id)
    /\ timers' = Tail(timers)
    /\ UNCHANGED <<appPhase, microtasks, now, completed, appCalls, dbVars>>

\* Time passes: by a millisecond, or by the delay of a notification timer.
\* The clock advances MaxTicks times at most.
TicksElapsed == (now % NotificationDelay) + (now \div NotificationDelay)

Tick(d) ==
    /\ TicksElapsed < MaxTicks
    /\ now' = now + d
    /\ UNCHANGED <<appPhase, state, microtasks, timers, completed, appCalls, dbVars>>

AppInit ==
    /\ Init
    /\ hasIndexedDB
    /\ diskVersion = dbVersion

AppNext ==
    \/ DOMContentLoaded
    \/ \E form \in FormInputs : handleSubmitNcForm(form)
    \/ RunMicrotask
    \/ \E ncId \in NcIdInputs : \E updates \in UpdateInputs : updateNc(ncId, updates)
    \/ \E ncId \in NcIdInputs : closeNc(ncId)
    \/ TimerFires
    \/ \E d \in {1, NotificationDelay} : Tick(d)

AppSpec == AppInit /\ [][AppNext]_vars

(* ------------------------------ properties ---------------------------- *)
AddOps == {"addUser", "addNonConformite", "addActionCorrective"}

\* The columns the specification requires of a record of each add.
RequiredOf(o) ==
    CASE o = "addUser" -> {"username", "password"}
      [] o = "addNonConformite" ->
            {"type_defaut", "poste", "gravite", "description", "id_declarant"}
      [] OTHER -> {"description", "responsable", "delai", "id_nc"}

\* The required columns a record lacks: absent, null or the empty string.
MissingOf(o, a) == {c \in RequiredOf(o) : a[c] \in {Undef, Null, Str(<< >>)}}

GraviteOptions == {Str(S_Mineure), Str(S_Majeure), Str(S_Critique)}

\* A record the specification's validation rejects: a required column is
\* missing, or gravite is outside its enumeration.
FailsValidation(o, a) ==
    \/ MissingOf(o, a) # {}
    \/ o = "addNonConformite" /\ a["gravite"] \notin GraviteOptions

HandleOpen == db = "conn" /\ conn = "open"

Settled(p) == pc[p] = "idle" /\ result[p].status # "none"

\* C1: an add whose record fails validation rejects at once and creates no
\* transaction: the call is never suspended, and the count of transactions
\* of the call stays 0.
C1_NoTransactionForInvalidRecord ==
    \A p \in Procs :
        (op[p] \in AddOps /\ FailsValidation(op[p], argIn[p]))
        => /\ pc[p] = "idle"
           /\ result[p].status = "rejected"
           /\ callTx[p] = 0
           /\ \A i \in 1..Len(txs) : txs[i].given # argIn[p]

\* An invalid record was passed to an add while the handle was open, and
\* the call was rejected with the validation error.
C1_Witness ==
    /\ HandleOpen
    /\ \E p \in Procs :
          /\ op[p] \in AddOps
          /\ FailsValidation(op[p], argIn[p])
          /\ result[p].status = "rejected"
          /\ result[p].err = "ValidationError"

\* C2: every add of a record with missing required columns rejects with the
\* aggregated validation error, which names each missing column.
C2_AggregatedValidationError ==
    \A p \in Procs :
        (op[p] \in AddOps /\ MissingOf(op[p], argIn[p]) # {} /\ Settled(p))
        => /\ result[p].status = "rejected"
           /\ result[p].err = "ValidationError"
           /\ \A c \in MissingOf(op[p], argIn[p]) :
                 \E k \in 1..Len(result[p].errors) : result[p].errors[k].col = c

\* C3: Scenario A on an open database resolves with a numeric id.
C3_ScenarioAResolves ==
    \A p \in Procs :
        (op[p] = "addNonConformite" /\ argIn[p] = ScenarioA /\ HandleOpen /\ Settled(p))
        => /\ result[p].status = "resolved"
           /\ result[p].key.t = "number"

\* C4: an otherwise valid non-conformity with gravite outside the enumeration
\* rejects with the validation error citing gravite.
C4_EnumViolationCited ==
    \A p \in Procs :
        (/\ op[p] = "addNonConformite"
         /\ MissingOf(op[p], argIn[p]) = {}
         /\ argIn[p]["gravite"] \notin GraviteOptions
         /\ Settled(p))
        => /\ result[p].status = "rejected"
           /\ result[p].err = "ValidationError"
           /\ \E k \in 1..Len(result[p].errors) : result[p].errors[k].col = "gravite"

HexDigits ==
    {"0", "1", "2", "3", "4", "5", "6", "7", "8", "9", "a", "b", "c", "d", "e", "f"}

\* A string of 64 hexadecimal characters.
Hex64(v) ==
    /\ v.t = "string"
    /\ Len(v.s) = 64
    /\ \A k \in 1..Len(v.s) : v.s[k] \in HexDigits

\* digest is the SHA-256 of plain.
IsSha256Of(digest, plain) == <<plain.s, digest.s>> \in Sha256Pairs

\* The committed transactions that added row r to a store.
AddersOf(store, r) ==
    {i \in 1..Len(txs) :
        /\ txs[i].kind = "add"
        /\ txs[i].store = store
        /\ txs[i].state = "committed"
        /\ txs[i].row = r}

C6_StoreAssignsKey ==
    \A p \in Procs :
        (/\ op[p] \in {"addUser", "addActionCorrective"}
         /\ ~FailsValidation(op[p], argIn[p])
         /\ argIn[p]["id"] = Undef
         /\ HandleOpen
         /\ Settled(p)
         /\ result[p].err \notin {"AbortError", "ConstraintError", "NotInitialized"})
        => /\ result[p].status = "resolved"
           /\ result[p].key.t = "number"

\* C7: the keys the adds on one store resolved with are strictly increasing.
C7_KeysStrictlyIncreasing ==
    \A t \in Tables :
        \A i \in 1..Len(keysReturned[t]) : \A j \in 1..Len(keysReturned[t]) :
            i < j => keysReturned[t][i].n < keysReturned[t][j].n

CommittedRows(store) ==
    {txs[i].row : i \in {k \in 1..Len(txs) :
        txs[k].kind = "add" /\ txs[k].store = store /\ txs[k].state = "committed"}}

\* C8: a store holds exactly the rows of the adds that committed, and every
\* row a read resolves with is the row of an add that committed; the row of
\* an aborted add, or of a record rejected by validation, is in neither.
C8_ReadsSeeCommittedRowsOnly ==
    /\ \A t \in Tables : stores[t] = CommittedRows(t)
    /\ \A p \in Procs :
          (op[p] \in {"getUser", "getNonConformites"} /\ result[p].status = "resolved")
          => \A k \in 1..Len(result[p].rows) :
                result[p].rows[k] \in CommittedRows(OpStore(op[p]))

\* An addUser passed validation and its transaction aborted; a later
\* getUser of that user name resolved with no row.
C8_Witness ==
    \E i \in 1..Len(txs) : \E j \in 1..Len(txs) :
        /\ i < j
        /\ txs[i].kind = "add"
        /\ txs[i].state = "aborted"
        /\ txs[j].kind = "get"
        /\ txs[j].row["username"] = txs[i].row["username"]
        /\ txs[j].outcome = "resolved"
        /\ op[txs[j].owner] = "getUser"
        /\ argIn[txs[j].owner] = txs[j].row
        /\ result[txs[j].owner].status = "resolved"
        /\ result[txs[j].owner].rows = << >>

\* C9: the call of an add whose transaction aborted did not resolve.
C9_WriteFailureNeverSwallowed ==
    \A i \in 1..Len(txs) :
        (txs[i].kind = "add" /\ txs[i].state = "aborted")
        => txs[i].outcome # "resolved"

\* C10: at most one open request is pending, and indexedDB.open was never
\* called while a request was pending or while this.db held a connection.
C10_AtMostOneOpen ==
    /\ Cardinality(PendingOpens) <= 1
    /\ \A i \in 1..Len(opens) :
          /\ opens[i].dbAtOpen = "null"
          /\ opens[i].pendingAtOpen = 0

\* Operations were invoked while the open was pending (rejected for the
\* missing handle) and once the handle existed (a transaction was created),
\* and one open request was issued in all.
C10_Witness ==
    /\ Len(opens) = 1
    /\ db = "conn"
    /\ \E p \in Procs : result[p].err = "NotInitialized"
    /\ \E q \in Procs : callTx[q] = 1

\* C11: an operation invoked while the open is pending waits for it: no call
\* has been rejected for the missing handle while an open request is still
\* pending.
C11_WaitsForPendingOpen ==
    \A p \in Procs :
        (Settled(p) /\ result[p].err = "NotInitialized") => PendingOpens = {}

\* The transaction of the current or last call of caller p, when that call
\* created one: the last transaction p owns.
LastTx(p) ==
    CHOOSE i \in 1..Len(txs) :
        /\ txs[i].owner = p
        /\ \A j \in 1..Len(txs) : txs[j].owner = p => j <= i

\* C12: when the operation run inside executeTransaction has failed, the
\* call is rejected with the error the store raised, and the call's log
\* holds the TRANSACTION_FAILED entry for that error, ahead of the entry of
\* the operation's own catch block.
C12_SameErrorAfterTransactionFailedLog ==
    \A p \in Procs :
        /\ (Settled(p) /\ callTx[p] = 1 /\ txs[LastTx(p)].outcome = "rejected")
           => /\ result[p].status = "rejected"
              /\ result[p].err = txs[LastTx(p)].error
              /\ Len(logs[p]) >= 1
              /\ logs[p][1].event = "TRANSACTION_FAILED"
              /\ logs[p][1].err = txs[LastTx(p)].error
              /\ \A k \in 2..Len(logs[p]) : logs[p][k].event = OpEvent(op[p])
        /\ (Settled(p) /\ result[p].err = "InvalidStateError")
           => /\ Len(logs[p]) >= 1
              /\ logs[p][1].event = "TRANSACTION_FAILED"
              /\ logs[p][1].err = "InvalidStateError"

\* An add was refused by the store with a ConstraintError, and the call was
\* rejected with it after TRANSACTION_FAILED was logged.
C12_Witness ==
    \E p \in Procs :
        /\ Settled(p)
        /\ callTx[p] = 1
        /\ txs[LastTx(p)].error = "ConstraintError"
        /\ result[p].err = "ConstraintError"
        /\ logs[p][1].event = "TRANSACTION_FAILED"

\* C13: without IndexedDB, initialization has failed with an error once the
\* manager is constructed, indexedDB.open is never called, the handle stays
\* null and the status reports initialized = false.
C13_NoCapabilityNoOpen ==
    (phase = "loaded" /\ ~hasIndexedDB)
    => /\ opens = << >>
       /\ db = "null"
       /\ ~getDatabaseStatus.initialized
       /\ getDatabaseStatus.storeNames = {}
       /\ \E k \in 1..Len(initLog) :
             /\ initLog[k].event = "DB_INITIALIZATION_FAILED"
             /\ initLog[k].err = "NoIndexedDB"

\* The manager was constructed on a host without IndexedDB and an operation
\* was invoked and has settled.
C13_Witness ==
    /\ phase = "loaded"
    /\ ~hasIndexedDB
    /\ \E p \in Procs : Settled(p) /\ result[p].err = "NotInitialized"
    /\ ~getDatabaseStatus.initialized

OpenSettled(i) == opens[i].state \in {"success", "error"}

\* C14: an initialization that found no database, or an older one, on disk
\* has completed successfully, and the database then has version dbVersion
\* and exactly the three declared stores.
C14_FreshDatabaseInitialized ==
    \A i \in 1..Len(opens) :
        (opens[i].oldVersion < dbVersion /\ OpenSettled(i))
        => /\ opens[i].state = "success"
           /\ opens[i].init = "resolved"
           /\ diskVersion = dbVersion
           /\ objectStoreNames = Tables

\* C15: an initialization against a database that is already current has
\* succeeded, and the stores on disk are the three declared ones as before.
C15_InitializationIdempotent ==
    \A i \in 1..Len(opens) :
        (opens[i].oldVersion = dbVersion /\ OpenSettled(i))
        => /\ opens[i].init = "resolved"
           /\ diskVersion = dbVersion
           /\ objectStoreNames = Tables

\* C16: createTables() is called for an open request only from its
\* upgradeneeded handler, and only when the version on disk was lower than
\* dbVersion.
C16_MigrationOnlyInUpgrade ==
    \A i \in 1..Len(opens) :
        /\ opens[i].createTablesIn \subseteq {"upgradeneeded"}
        /\ opens[i].createTablesIn # {} => opens[i].oldVersion < dbVersion

\* The rows of users with the user name transaction j looks up, committed by
\* the adds created before j (those j runs after).
MatchingBefore(j) ==
    {txs[i].row : i \in {k \in 1..(j - 1) :
        /\ txs[k].kind = "add"
        /\ txs[k].store = "users"
        /\ txs[k].state = "committed"
        /\ txs[k].row["username"] = txs[j].row["username"]}}

\* C17: a getUser that got its transaction on the open database resolves:
\* with the one row of that user name when an add of it had committed, with
\* no row (undefined) otherwise; and the rows of users remain those of the
\* committed adds.
C17_GetUserResolvesAbsent ==
    /\ \A p \in Procs :
          (op[p] = "getUser" /\ Settled(p) /\ callTx[p] = 1)
          => /\ result[p].status = "resolved"
             /\ MatchingBefore(LastTx(p)) = {} => result[p].rows = << >>
             /\ MatchingBefore(LastTx(p)) # {}
                   => /\ Len(result[p].rows) = 1
                      /\ result[p].rows[1] \in MatchingBefore(LastTx(p))
    /\ \A j \in 1..Len(txs) :
          txs[j].kind = "get" => txs[j].row \notin stores["users"]

\* getUser was invoked on the open database for a user name no row has, and
\* resolved with no row.
C17_Witness ==
    \E p \in Procs :
        /\ op[p] = "getUser"
        /\ HandleOpen
        /\ Settled(p)
        /\ callTx[p] = 1
        /\ result[p].status = "resolved"
        /\ result[p].rows = << >>

CommittedAdds ==
    {i \in 1..Len(txs) : txs[i].kind = "add" /\ txs[i].state = "committed"}

\* C19: a row stored by an add has the declared default in every column
\* with a default that the record passed to the add left out.
C19_DefaultsApplied ==
    \A i \in CommittedAdds :
        \A c \in DOMAIN DeclaredDefaults(txs[i].store) :
            txs[i].given[c] = Undef
            => /\ txs[i].row[c] = DeclaredDefaults(txs[i].store)[c]
               /\ txs[i].row \in stores[txs[i].store]

\* C20: every row of every store passes validateData against the columns
\* declared for its table.
C20_RowsSatisfyDeclaredColumns ==
    \A t \in Tables :
        \A r \in stores[t] : validateData(r, DeclaredColumns(t)).kind = "ok"

\* The addUser transactions the store answered with a key.
ResolvedUserAdds ==
    {i \in 1..Len(txs) : txs[i].store = "users" /\ txs[i].kind = "add"
                          /\ txs[i].outcome = "resolved"}

\* C22: no two rows of users have the same username, and of the addUser
\* calls with one username at most one resolves with a key.
C22_UsernameUnique ==
    /\ \A r, q \in stores["users"] : r["username"] = q["username"] => r = q
    /\ \A i, j \in ResolvedUserAdds :
          txs[i].row["username"] = txs[j].row["username"] => i = j

\* The passwords the callers put in the objects they pass to addUser.
Plaintexts == {u["password"] : u \in UserInputs} \ {Undef}

\* Every entry written so far, by initDatabase and by the calls.
AllLogEntries ==
    {initLog[k] : k \in 1..Len(initLog)}
    \cup UNION {{logs[p][k] : k \in 1..Len(logs[p])} : p \in Procs}

C24_InitializedOnlyWhenUsable ==
    getDatabaseStatus.initialized
    => /\ conn = "open"
       /\ PendingOpens = {}
       /\ \E i \in 1..Len(opens) : opens[i].state = "success"

\* The steps the program takes by itself are taken: the module is evaluated
\* and a digest that was asked for is computed. Nothing is assumed of the
\* store: an open request or a transaction may hang.
CodeFairSpec ==
    /\ Spec
    /\ WF_vars(constructor)
    /\ \A p \in Procs : WF_vars(addUserHashed(p))

\* C25: every operation that was invoked settles, also when the store never
\* delivers an event for its request.
C25_EveryCallSettles ==
    \A p \in Procs : (pc[p] # "idle") ~> (pc[p] = "idle")

\* The table and the transaction mode the specification gives each operation.
TableOf(o) ==
    CASE o \in {"addUser", "getUser"} -> "users"
      [] o \in {"addNonConformite", "getNonConformites"} -> "non_conformites"
      [] o = "addActionCorrective" -> "actions_correctives"

ModeOf(o) == IF o \in AddOps THEN "readwrite" ELSE "readonly"

\* C26: no more transactions were created than operations were invoked (so
\* none was created for a retry), and the transaction of a call is on the
\* table of its operation alone, readonly for the two reads and readwrite
\* for the three adds.
C26_OneTransactionPerCall ==
    /\ Len(txs) <= ncalls
    /\ \A p \in Procs :
          /\ callTx[p] \in {0, 1}
          /\ callTx[p] = 1
             => /\ txs[LastTx(p)].store = TableOf(op[p])
                /\ txs[LastTx(p)].mode = ModeOf(op[p])
                /\ txs[LastTx(p)].given = argIn[p]

\* A read got its readonly transaction, and an add whose transaction failed
\* has settled with no further transaction created for it.
C26_Witness ==
    \E p, q \in Procs :
        /\ op[p] \in {"getUser", "getNonConformites"}
        /\ callTx[p] = 1
        /\ txs[LastTx(p)].mode = "readonly"
        /\ op[q] \in AddOps
        /\ Settled(q)
        /\ callTx[q] = 1
        /\ txs[LastTx(q)].outcome = "rejected"
        /\ Len(txs) = 2

\* C27: the password of every row of users is the digest of a password a
\* caller put in a record, and the object of an addUser that has failed is
\* the object as it was passed in.
C27_PasswordOfOriginalRecord ==
    /\ \A r \in stores["users"] :
          \E v \in Plaintexts : IsSha256Of(r["password"], v)
    /\ \A p \in Procs :
          (op[p] = "addUser" /\ Settled(p) /\ result[p].status = "rejected")
          => arg[p] = argIn[p]

\* The first half of C27 alone: it fails once a resubmitted object is stored.
C27_StoredDigestOfOriginal ==
    \A r \in stores["users"] : \E v \in Plaintexts : IsSha256Of(r["password"], v)

(* --------------------- properties of the application ------------------ *)
\* C28: every run of handleSubmitNcForm that completed on a form passing
\* validateNcForm left state.nonConformites one entry longer than it found
\* it, the new entry being the form's data with statut "Ouvert" and the id
\* previous length + 1; and the ids in state.nonConformites are distinct.
C28_SubmitAppendsOneEntry ==
    /\ \A k \in 1..Len(completed) :
          completed[k].outcome = "success"
          => LET before == completed[k].before
                 after == completed[k].after
             IN  /\ Len(after) = Len(before) + 1
                 /\ SubSeq(after, 1, Len(before)) = before
                 /\ after[Len(after)]["id"] = Num(Len(before) + 1)
                 /\ after[Len(after)]["statut"] = Str(S_Ouvert)
                 /\ \A c \in Cols \ {"id", "statut", "date_creation"} :
                       after[Len(after)][c] = completed[k].form[c]
    /\ \A i, j \in 1..Len(state.nonConformites) :
          state.nonConformites[i]["id"] = state.nonConformites[j]["id"] => i = j

\* C29: the notification of every pending timer is in state.notifications,
\* and every notification in state.notifications has its timer pending.
C29_NotificationPresentUntilTimer ==
    /\ \A k \in 1..Len(timers) :
          \E i \in 1..Len(state.notifications) :
              state.notifications[i] = timers[k].notification
    /\ \A i \in 1..Len(state.notifications) :
          \E k \in 1..Len(timers) :
              timers[k].notification.id = state.notifications[i].id

\* No non-conformity is ever held by the application: updateNc and closeNc
\* never find the record they are asked for.
NoNonConformiteEverHeld == state.nonConformites = << >>

\* C30: state.isLoading is false whenever no async method is suspended, so
\* after loadInitialData and after every path of handleSubmitNcForm; and a
\* run of handleSubmitNcForm on a form validateNcForm rejects leaves
\* state.nonConformites as it found it.
C30_NotLoadingWhenIdle ==
    /\ microtasks = << >> => ~state.isLoading
    /\ \A k \in 1..Len(completed) :
          completed[k].outcome = "rejected"
          => completed[k].after = completed[k].before

\* loadInitialData has settled, and handleSubmitNcForm has completed once
\* on each of its paths: success, rejected form, exception.
C30_Witness ==
    /\ appPhase = "running"
    /\ microtasks = << >>
    /\ ~state.isLoading
    /\ \A o \in {"success", "rejected", "error"} :
          \E k \in 1..Len(completed) : completed[k].outcome = o

=============================================================================
